---- MODULE Spec2Model ----
(***************************************************************************)
(* denoise-cli: the lambda sweep driver of src/main.rs (argument           *)
(* validation, lambda sequence, one unit of work per lambda run on a       *)
(* thread or inline, join) and the primal-dual solver it calls.            *)
(*                                                                         *)
(* Numbers.  An f64 is modelled as a record: a finite value is a signed    *)
(* count of units of 1/SCALE (binary64's rounding is kept as rounding to   *)
(* the nearest unit, its overflow as overflow above FMAX), and the         *)
(* non-finite values are +inf, -inf and NaN.                               *)
(***************************************************************************)
EXTENDS Integers, Sequences, FiniteSets, TLC

\* ------------------------------------------------------------ bounds
\* units per 1.0: the resolution of the modelled floating point
SCALE == 100
\* largest finite magnitude, in whole numbers (stands for f64::MAX)
MaxWhole == 300
\* largest number of steps tried
MaxSteps == 3
\* largest available parallelism tried
MaxPar == 2
\* largest max_iter tried
MaxIter == 2

FMAX == MaxWhole * SCALE

\* ------------------------------------------------------------ f64
Fin(n) == [k |-> "fin", v |-> n]
PInf == [k |-> "inf", v |-> 1]
NInf == [k |-> "inf", v |-> -1]
NaN == [k |-> "nan", v |-> 0]

IsFin(x) == x.k = "fin"
IsNaN(x) == x.k = "nan"

Abs(n) == IF n < 0 THEN -n ELSE n
Sgn(n) == IF n < 0 THEN -1 ELSE IF n > 0 THEN 1 ELSE 0

\* n / d rounded to the nearest integer (ties away from zero), d > 0
RoundDiv(n, d) == Sgn(n) * ((2 * Abs(n) + d) \div (2 * d))

\* a finite result, or the infinity it overflows to
Overflow(n) == IF Abs(n) > FMAX THEN (IF n > 0 THEN PInf ELSE NInf) ELSE Fin(n)

\* a < b on f64: false whenever an operand is NaN
FLt(a, b) ==
  IF IsNaN(a) \/ IsNaN(b) THEN FALSE
  ELSE IF IsFin(a) /\ IsFin(b) THEN a.v < b.v
  ELSE IF IsFin(a) THEN b.v > 0
  ELSE IF IsFin(b) THEN a.v < 0
  ELSE a.v < b.v

\* a * b on f64
FMul(a, b) ==
  IF IsNaN(a) \/ IsNaN(b) THEN NaN
  ELSE IF IsFin(a) /\ IsFin(b) THEN Overflow(RoundDiv(a.v * b.v, SCALE))
  ELSE IF Sgn(a.v) * Sgn(b.v) = 0 THEN NaN
  ELSE IF Sgn(a.v) * Sgn(b.v) > 0 THEN PInf ELSE NInf

\* a / b on f64
FDiv(a, b) ==
  IF IsNaN(a) \/ IsNaN(b) THEN NaN
  ELSE IF IsFin(a) /\ IsFin(b) THEN
    IF b.v = 0 THEN (IF a.v = 0 THEN NaN ELSE IF a.v > 0 THEN PInf ELSE NInf)
    ELSE Overflow(Sgn(b.v) * RoundDiv(a.v * SCALE, Abs(b.v)))
  ELSE IF IsFin(a) THEN Fin(0)
  ELSE IF IsFin(b) THEN (IF a.v * (IF b.v < 0 THEN -1 ELSE 1) > 0 THEN PInf ELSE NInf)
  ELSE NaN

\* x^n <= t on naturals, without forming x^n
RECURSIVE PowLeq(_, _, _)
PowLeq(x, n, t) ==
  IF n = 0 THEN 1 <= t
  ELSE IF x = 0 THEN TRUE
  ELSE PowLeq(x, n - 1, t \div x)

RECURSIVE IPow(_, _)
IPow(x, n) == IF n = 0 THEN 1 ELSE x * IPow(x, n - 1)

\* the largest x in lo..hi with x^n <= t (lo^n <= t), by bisection
RECURSIVE FloorRoot(_, _, _, _)
FloorRoot(t, n, lo, hi) ==
  IF lo >= hi THEN lo
  ELSE LET mid == (lo + hi + 1) \div 2
       IN IF PowLeq(mid, n, t) THEN FloorRoot(t, n, mid, hi)
          ELSE FloorRoot(t, n, lo, mid - 1)

\* the natural whose n-th power is nearest to t (t >= 0, n >= 1)
NearestRoot(t, n) ==
  LET lo == FloorRoot(t, n, 0, FMAX)
  IN IF lo < FMAX /\ IPow(lo + 1, n) - t < t - IPow(lo, n) THEN lo + 1 ELSE lo

\* x.powf(y) for the exponents the sweep forms: y = +inf, or y = 1/n, where
\* the power is the n-th root, rounded
FPowf(x, y) ==
  IF IsNaN(y) THEN (IF x = Fin(SCALE) THEN Fin(SCALE) ELSE NaN)
  ELSE IF IsFin(y) /\ y.v = 0 THEN Fin(SCALE)
  ELSE IF IsNaN(x) THEN NaN
  ELSE IF ~IsFin(y) THEN
    \* y = +inf (the sweep forms no negative exponent)
    IF ~IsFin(x) THEN PInf
    ELSE IF Abs(x.v) > SCALE THEN PInf
    ELSE IF Abs(x.v) = SCALE THEN Fin(SCALE)
    ELSE Fin(0)
  ELSE
    LET n == RoundDiv(SCALE, Abs(y.v))
    IN IF ~IsFin(x) THEN (IF x.v < 0 /\ n = 1 THEN NInf ELSE PInf)
       ELSE IF n <= 1 THEN x
       ELSE IF x.v < 0 THEN NaN
       ELSE Overflow(NearestRoot(x.v * IPow(SCALE, n - 1), n))

\* x.powi(b), b >= 0: the square-and-multiply loop of the powi intrinsic
RECURSIVE PowiLoop(_, _, _)
PowiLoop(a, b, r) ==
  LET r1 == IF b % 2 = 1 THEN FMul(r, a) ELSE r
  IN IF b \div 2 = 0 THEN r1 ELSE PowiLoop(FMul(a, a), b \div 2, r1)

FPowi(a, b) == PowiLoop(a, b, Fin(SCALE))

\* ------------------------------------------------------------ matrices
\* A channel is a sequence of rows of finite values in units of 1/SCALE.
Rows(M) == Len(M)
Cols(M) == Len(M[1])
Mat(M, F(_, _)) == [i \in 1..Rows(M) |-> [j \in 1..Cols(M) |-> F(i, j)]]

\* a * b and a / b on finite values (b # 0), rounded to the unit
Mul(a, b) == RoundDiv(a * b, SCALE)
Div(a, b) == Sgn(b) * RoundDiv(a * SCALE, Abs(b))

\* the square root of a finite value t >= 0, rounded
Sqrt(t) ==
  LET s == t * SCALE
      lo == FloorRoot(s, 2, 0, s)
  IN IF (lo + 1) * (lo + 1) - s < s - lo * lo THEN lo + 1 ELSE lo

\* forward differences, 0 past the last column / row
GradX(M) == Mat(M, LAMBDA i, j : IF j < Cols(M) THEN M[i][j + 1] - M[i][j] ELSE 0)
GradY(M) == Mat(M, LAMBDA i, j : IF i < Rows(M) THEN M[i + 1][j] - M[i][j] ELSE 0)

\* the negative adjoint of the gradient: backward differences, one-sided at
\* the first and last column / row
Divergence(px, py) ==
  Mat(px, LAMBDA i, j :
    (IF j < Cols(px) THEN px[i][j] ELSE 0) - (IF j > 1 THEN px[i][j - 1] ELSE 0)
    + (IF i < Rows(px) THEN py[i][j] ELSE 0) - (IF i > 1 THEN py[i - 1][j] ELSE 0))

RECURSIVE SumTo(_, _)
SumTo(f, n) == IF n = 0 THEN 0 ELSE f[n] + SumTo(f, n - 1)

\* the sum-of-squares norm
NormSq(M) ==
  SumTo([i \in 1..Rows(M) |->
           SumTo([j \in 1..Cols(M) |-> Mul(M[i][j], M[i][j])], Cols(M))], Rows(M))

Zero(M) == Mat(M, LAMBDA i, j : 0)
IsUniform(M) == \A i \in 1..Rows(M) : \A j \in 1..Cols(M) : M[i][j] = M[1][1]

\* ------------------------------------------------------------ solver
\* Single-channel accelerated primal-dual iteration.

\* F(v), with v evaluated once
With(v, F(_)) == CHOOSE y \in {F(x) : x \in {v}} : TRUE

SolverInit(f, tau, sigma) ==
  [u |-> f, ubar |-> f, px |-> Zero(f), py |-> Zero(f),
   tau |-> tau, sigma |-> sigma, n |-> 0, status |-> "iterating"]

\* length of the 2-vector (a, b)
Norm2(a, b) ==
  LET s == a * a + b * b
      lo == FloorRoot(s, 2, 0, s)
  IN IF (lo + 1) * (lo + 1) - s < s - lo * lo THEN lo + 1 ELSE lo

\* step 1: p + sigma * grad(ubar), projected pointwise onto the unit ball
Project(a, len) == IF len <= SCALE THEN a ELSE Div(a, len)
DualUpdate(s) ==
  With(<<GradX(s.ubar), GradY(s.ubar)>>, LAMBDA g :
    With(<<Mat(s.u, LAMBDA i, j : s.px[i][j] + Mul(s.sigma, g[1][i][j])),
           Mat(s.u, LAMBDA i, j : s.py[i][j] + Mul(s.sigma, g[2][i][j]))>>, LAMBDA t :
      With(Mat(s.u, LAMBDA i, j : Norm2(t[1][i][j], t[2][i][j])), LAMBDA len :
        [px |-> Mat(s.u, LAMBDA i, j : Project(t[1][i][j], len[i][j])),
         py |-> Mat(s.u, LAMBDA i, j : Project(t[2][i][j], len[i][j]))])))

\* step 2: the proximal step of the quadratic data term
PrimalUpdate(s, p, f, lambda) ==
  With(<<Divergence(p.px, p.py), Mul(s.tau, lambda)>>, LAMBDA d :
    Mat(f, LAMBDA i, j :
      Div(s.u[i][j] - Mul(s.tau, d[1][i][j]) + Mul(d[2], f[i][j]), SCALE + d[2])))

\* step 3: the acceleration factor
Theta(gamma, tau) == Div(SCALE, Sqrt(SCALE + 2 * Mul(gamma, tau)))

\* the relative change between two iterates
RelativeChange(u, u1) ==
  With(<<NormSq(Mat(u, LAMBDA i, j : u1[i][j] - u[i][j])), NormSq(u)>>, LAMBDA n :
    IF n[2] = 0 THEN n[1] ELSE Div(n[1], n[2]))

\* faulty variant: a non-strict stopping test
ConvergedOrEqual(rel, thr) == rel <= thr
\* the stopping test: converged when the relative change is below the threshold
Converged(rel, thr) == rel < thr

SolverStep(s, f, lambda, gamma, max_iter, thr) ==
  With(DualUpdate(s), LAMBDA p :
    With(<<PrimalUpdate(s, p, f, lambda), Theta(gamma, s.tau)>>, LAMBDA r :
      [u |-> r[1],
       ubar |-> Mat(f, LAMBDA i, j : r[1][i][j] + Mul(r[2], r[1][i][j] - s.u[i][j])),
       px |-> p.px, py |-> p.py,
       tau |-> Mul(r[2], s.tau),
       sigma |-> Div(s.sigma, r[2]),
       n |-> s.n + 1,
       status |-> IF Converged(RelativeChange(s.u, r[1]), thr) THEN "converged"
                  ELSE IF s.n + 1 >= max_iter THEN "exhausted"
                  ELSE "iterating"]))

RECURSIVE SolverRun(_, _, _, _, _, _)
SolverRun(s, f, lambda, gamma, max_iter, thr) ==
  With(s, LAMBDA s0 :
    IF s0.status # "iterating" THEN s0
    ELSE SolverRun(SolverStep(s0, f, lambda, gamma, max_iter, thr),
                   f, lambda, gamma, max_iter, thr))

\* denoise: one channel, finite positive parameters
Denoise(f, lambda, tau, sigma, gamma, max_iter, thr) ==
  SolverRun(SolverInit(f, tau, sigma), f, lambda, gamma, max_iter, thr)

\* ------------------------------------------------------------ unit of work
\* img.to_matrices(): 8-bit samples to f64 samples
ToMatrices(image) ==
  [c \in 1..Len(image) |-> Mat(image[c], LAMBDA i, j : image[c][i][j] * SCALE)]

\* RgbImage::from_matrices: f64 samples back to 8-bit samples (saturating)
U8Max == 255
ToU8(v) == IF v < 0 THEN 0 ELSE IF v \div SCALE > U8Max THEN U8Max ELSE v \div SCALE
FromMatrices(m) ==
  [c \in 1..Len(m) |-> Mat(m[c], LAMBDA i, j : ToU8(m[c][i][j]))]

\* solvers::denoise_multichannel: the same parameters for every channel.
\* Outside the solver's precondition (lambda finite and positive) the result
\* is numerically meaningless; it is modelled as the input returned as is.
DenoiseMultichannel(image, lambda, tau, sigma, gamma, max_iter, thr) ==
  IF IsFin(lambda) /\ lambda.v > 0 /\ IsFin(gamma)
  THEN [c \in 1..Len(image) |->
          Denoise(image[c], lambda.v, tau.v, sigma.v, gamma.v, max_iter, thr).u]
  ELSE image

\* the step sizes chosen in denoise_and_save
Tau == FDiv(Fin(SCALE), Fin(Sqrt(2 * SCALE)))
Sigma == FDiv(Fin(SCALE), FMul(Fin(8 * SCALE), Tau))
Gamma(lambda) == FMul(Fin((35 * SCALE) \div 100), lambda)

\* format!("{}_lambda_=_{:.10}.png", prefix, lambda): the printed lambda keeps
\* fewer digits than the f64 holds
FmtStep == SCALE \div 10
Format(lambda) ==
  IF IsFin(lambda)
  THEN [k |-> "fin", neg |-> lambda.v < 0, digits |-> RoundDiv(Abs(lambda.v), FmtStep)]
  ELSE [k |-> lambda.k, neg |-> lambda.v < 0, digits |-> 0]

make_output_path_for(lambda) == Format(lambda)

\* faulty variant: every channel of the copy taken from the first channel
CloneFirstChannel(m) == [c \in 1..Len(m) |-> m[1]]
\* the image a unit of work is handed
CloneImage(m) == m

\* denoise_and_save: the parameters passed to the solver and what is saved.
\* [ok, tau, sigma, gamma, data]: ok is FALSE when save() fails and the
\* unit panics
denoise_and_save(image, max_iter, thr, lambda, path, bad) ==
  LET tau == Tau
      sigma == Sigma
      gamma == Gamma(lambda)
      denoised == DenoiseMultichannel(image, lambda, tau, sigma, gamma, max_iter, thr)
  IN [ok |-> path # bad, tau |-> tau, sigma |-> sigma, gamma |-> gamma,
      data |-> FromMatrices(denoised)]

\* ------------------------------------------------------------ lambda sequence
\* faulty variant: the exponent taken over steps instead of steps - 1
ExponentOverSteps(steps) == FDiv(Fin(SCALE), Fin(steps * SCALE))
Exponent(steps) == FDiv(Fin(SCALE), Fin((steps - 1) * SCALE))
Ratio(start, end, steps) == FPowf(FDiv(end, start), Exponent(steps))
\* faulty variant: the range 0..=steps, one lambda too many
LambdaSeqInclusive(start, q, steps) ==
  [k \in 1..(steps + 1) |-> FMul(start, FPowi(q, k - 1))]
\* faulty variant: powers 1..steps instead of 0..steps-1
LambdaSeqFromOne(start, q, steps) ==
  [k \in 1..steps |-> FMul(start, FPowi(q, k))]
LambdaSeq(start, q, steps) ==
  [k \in 1..steps |-> FMul(start, FPowi(q, k - 1))]

\* ------------------------------------------------------------ state
VARIABLES
  pc,            \* where main is
  args,          \* the parsed command line (Cli)
  fs,            \* what the file system holds at the two given paths
  par,           \* thread::available_parallelism(): 0 for Err, n for Ok(n)
  img,           \* the decoded 8-bit input image
  img_matrices,  \* its three channels as f64 matrices
  bad,           \* the output path save() fails on, if any
  expo,          \* the exponent 1 / (steps - 1)
  q,             \* the multiplier between consecutive lambdas
  lambdas,       \* the lambda sequence
  units,         \* the units of work dispatched so far, in dispatch order
  joined,        \* number of handles joined so far
  files,         \* the output folder: path -> saved image
  sin,           \* solver alone: its input
  sv             \* solver alone: its iteration state

vars == <<pc, args, fs, par, img, img_matrices, bad, expo, q, lambdas, units,
          joined, files, sin, sv>>

\* ------------------------------------------------------------ inputs
\* SCALE + 1 is the f64 next above 1.0
LambdaInputs == {-SCALE, 0, SCALE, SCALE + 1, 2 * SCALE, 4 * SCALE}
Thresholds == {0, 1}
FsStates == {"ok", "no_input", "no_outdir", "undecodable"}
Flat == <<<<5, 5>>>>
Edge == <<<<0, 10>>>>
Images == {<<Flat, Flat, Flat>>, <<Edge, Flat, Edge>>}
NoPath == [k |-> "none", neg |-> FALSE, digits |-> 0]
BadPaths == {NoPath} \cup {make_output_path_for(Fin(v)) : v \in LambdaInputs}
None == <<>>
Off == [status |-> "off"]

\* The file-system faults end the run before anything else is read, so they
\* are tried with one setting of the other inputs.
Init ==
  /\ pc = "parse"
  /\ args \in [start_lambda : {Fin(v) : v \in LambdaInputs},
               end_lambda : {Fin(v) : v \in LambdaInputs},
               steps : 0..MaxSteps,
               max_iter : {MaxIter},
               convergence_threshold : Thresholds]
  /\ par \in {0, MaxPar}
  /\ img \in Images
  /\ bad \in BadPaths
  /\ fs \in IF par = 0 /\ bad = NoPath /\ IsUniform(img[1])
            THEN FsStates ELSE {"ok"}
  /\ img_matrices = None
  /\ expo = None
  /\ q = None
  /\ lambdas = <<>>
  /\ units = <<>>
  /\ joined = 0
  /\ files = <<>>
  /\ sin = Off
  /\ sv = Off

\* ------------------------------------------------------------ main
\* Cli::parse(): steps is a NonZeroUsize, so 0 is a usage error
Parse ==
  /\ pc = "parse"
  /\ pc' = IF args.steps = 0 THEN "usage_error" ELSE "validate"
  /\ UNCHANGED <<args, fs, par, img, img_matrices, bad, expo, q, lambdas, units,
                 joined, files, sin, sv>>

\* what validate_args accepts
ArgsValid(a, f) ==
  /\ f # "no_input"
  /\ f # "no_outdir"
  /\ FLt(a.start_lambda, a.end_lambda)

validate_args ==
  /\ pc = "validate"
  /\ pc' = IF ArgsValid(args, fs) THEN "open" ELSE "usage_error"
  /\ UNCHANGED <<args, fs, par, img, img_matrices, bad, expo, q, lambdas, units,
                 joined, files, sin, sv>>

\* image::open(..).expect(..), into_rgb8(), to_matrices()
OpenImage ==
  /\ pc = "open"
  /\ IF fs = "undecodable"
     THEN /\ pc' = "panicked"
          /\ UNCHANGED img_matrices
     ELSE /\ pc' = "lambdas"
          /\ img_matrices' = ToMatrices(img)
  /\ UNCHANGED <<args, fs, par, img, bad, expo, q, lambdas, units, joined, files,
                 sin, sv>>

\* q and the lambda iterator, then the match on available_parallelism()
ComputeLambdas ==
  /\ pc = "lambdas"
  /\ expo' = Exponent(args.steps)
  /\ q' = Ratio(args.start_lambda, args.end_lambda, args.steps)
  /\ lambdas' = LambdaSeq(args.start_lambda, q', args.steps)
  /\ pc' = IF par > 0 THEN "spawn" ELSE "seq"
  /\ UNCHANGED <<args, fs, par, img, img_matrices, bad, units, joined, files,
                 sin, sv>>

\* a unit of work as handed to thread::spawn or run inline
NewUnit(lambda, image, st) ==
  [lambda |-> lambda, image |-> image, max_iter |-> args.max_iter,
   thr |-> args.convergence_threshold,
   path |-> make_output_path_for(lambda), st |-> st, params |-> None, out |-> None]

\* a unit after denoise_and_save ran in it
Ran(u) ==
  With(denoise_and_save(u.image, u.max_iter, u.thr, u.lambda, u.path, bad), LAMBDA r :
    [u EXCEPT !.st = IF r.ok THEN "finished" ELSE "failed",
              !.params = [tau |-> r.tau, sigma |-> r.sigma, gamma |-> r.gamma],
              !.out = r.data])

\* save(): the file at the unit's path is created or replaced
Saved(fl, u) ==
  IF u.st = "finished"
  THEN [p \in DOMAIN fl \cup {u.path} |-> IF p = u.path THEN u.out ELSE fl[p]]
  ELSE fl

\* the number of threads the parallel branch spawns
SpawnCount == Len(lambdas)

\* one turn of the spawning loop
Spawn ==
  /\ pc = "spawn"
  /\ Len(units) < SpawnCount
  /\ units' = Append(units,
                NewUnit(lambdas[Len(units) + 1], CloneImage(img_matrices), "running"))
  /\ pc' = IF Len(units') = SpawnCount THEN "join" ELSE "spawn"
  /\ UNCHANGED <<args, fs, par, img, img_matrices, bad, expo, q, lambdas, joined,
                 files, sin, sv>>

\* the process is over: main returned, exited or panicked
Terminated == pc \in {"done", "usage_error", "panicked"}

\* a spawned thread runs its closure to the end (or panics in it)
ThreadRun(i) ==
  /\ ~Terminated
  /\ i \in 1..Len(units)
  /\ units[i].st = "running"
  /\ units' = [units EXCEPT ![i] = Ran(units[i])]
  /\ files' = Saved(files, units'[i])
  /\ UNCHANGED <<pc, args, fs, par, img, img_matrices, bad, expo, q, lambdas,
                 joined, sin, sv>>

\* handle.join().expect(..): blocks until the thread is over, panics if it panicked
Join ==
  /\ pc = "join"
  /\ joined < Len(units)
  /\ units[joined + 1].st # "running"
  /\ IF units[joined + 1].st = "failed"
     THEN /\ pc' = "panicked"
          /\ UNCHANGED joined
     ELSE /\ joined' = joined + 1
          /\ pc' = IF joined' = Len(units) THEN "done" ELSE "join"
  /\ UNCHANGED <<args, fs, par, img, img_matrices, bad, expo, q, lambdas, units,
                 files, sin, sv>>

\* one turn of the sequential loop: denoise_and_save runs inline on main
SeqRun ==
  /\ pc = "seq"
  /\ Len(units) < Len(lambdas)
  /\ LET u == Ran(NewUnit(lambdas[Len(units) + 1], img_matrices, "running"))
     IN /\ units' = Append(units, u)
        /\ files' = Saved(files, u)
        /\ pc' = IF u.st = "failed" THEN "panicked"
                 ELSE IF Len(units') = Len(lambdas) THEN "done" ELSE "seq"
  /\ UNCHANGED <<args, fs, par, img, img_matrices, bad, expo, q, lambdas, joined,
                 sin, sv>>

Next ==
  \/ Parse
  \/ validate_args
  \/ OpenImage
  \/ ComputeLambdas
  \/ Spawn
  \/ \E i \in 1..MaxSteps : ThreadRun(i)
  \/ Join
  \/ SeqRun

Spec == Init /\ [][Next]_vars

\* ------------------------------------------------------------ solver alone
\* The single-channel solver run on its own, one iteration per step, with the
\* step sizes denoise_and_save passes.
Channels == {<<<<10 * SCALE, 10 * SCALE>>, <<10 * SCALE, 10 * SCALE>>>>,
             <<<<0, 0>>, <<0, 0>>>>,
             <<<<0, 10 * SCALE>>, <<10 * SCALE, 0>>>>,
             <<<<0, 10 * SCALE>>, <<3 * SCALE, 7 * SCALE>>>>}
SolverLambdas == {SCALE \div 2, SCALE, 4 * SCALE}
SolverThresholds == {0, 1, SCALE}

InitSolver ==
  /\ sin \in [f : Channels, lambda : SolverLambdas, max_iter : 1..MaxIter,
              thr : SolverThresholds]
  /\ sv = SolverInit(sin.f, Tau.v, Sigma.v)
  /\ pc = "solver"
  /\ args = None
  /\ fs = "ok"
  /\ par = 0
  /\ img = None
  /\ img_matrices = None
  /\ bad = NoPath
  /\ expo = None
  /\ q = None
  /\ lambdas = <<>>
  /\ units = <<>>
  /\ joined = 0
  /\ files = <<>>

Iterate ==
  /\ pc = "solver"
  /\ sv.status = "iterating"
  /\ sv' = SolverStep(sv, sin.f, sin.lambda, Gamma(Fin(sin.lambda)).v,
                      sin.max_iter, sin.thr)
  /\ UNCHANGED <<sin, pc, args, fs, par, img, img_matrices, bad, expo, q,
                 lambdas, units, joined, files>>

NextSolver == Iterate

SolverSpec == InitSolver /\ [][NextSolver]_vars

\* ------------------------------------------------------------ properties
Idx == 1..Len(units)
Running == {i \in Idx : units[i].st = "running"}
Computed == lambdas # <<>>
HasFile(u) == u.path \in DOMAIN files

\* the sweep-level preconditions
NonPositive(x) == ~FLt(Fin(0), x)
SweepInvalid ==
  \/ args.steps = 0
  \/ ~FLt(args.start_lambda, args.end_lambda)
  \/ NonPositive(args.start_lambda)
  \/ \E k \in 1..args.steps :
       LET l == LambdaSeq(args.start_lambda,
                          Ratio(args.start_lambda, args.end_lambda, args.steps),
                          args.steps)[k]
       IN NonPositive(l) \/ NonPositive(Gamma(l))

ValidSweep == pc # "solver" /\ ~SweepInvalid

\* C1: when the driver returns or terminates (on a valid sweep), every
\* dispatched unit has reached its own terminal state (finished or failed);
\* none is still running.
C1_AllUnitsOverAtReturn ==
  (Terminated /\ ValidSweep) =>
    \A i \in Idx : units[i].st \in {"finished", "failed"}

\* C2: when a unit fails (on a valid sweep), every other lambda's unit still runs to completion
\* and its result is still produced: at termination every lambda of the
\* sequence has a unit that is over, and a finished unit's file exists.
C2_FailureIsolated ==
  (Terminated /\ ValidSweep /\ \E i \in Idx : units[i].st = "failed") =>
    \A k \in 1..Len(lambdas) :
      /\ k \in Idx
      /\ units[k].st # "running"
      /\ units[k].st = "finished" => HasFile(units[k])

\* C3: an input violating a sweep-level precondition is rejected before any
\* solver work: no unit is ever dispatched for it.
C3_InvalidNeverDispatched ==
  (pc # "solver" /\ SweepInvalid) => units = <<>>

\* the sequential branch as a function of the inputs: the units it dispatches
\* and the files it leaves
RECURSIVE SeqOutcome(_, _, _)
SeqOutcome(k, us, fl) ==
  IF k > Len(lambdas) THEN [units |-> us, files |-> fl]
  ELSE With(Ran(NewUnit(lambdas[k], ToMatrices(img), "running")), LAMBDA u :
         IF u.st = "failed" THEN [units |-> Append(us, u), files |-> fl]
         ELSE SeqOutcome(k + 1, Append(us, u), Saved(fl, u)))

Arguments(u) ==
  [lambda |-> u.lambda, image |-> u.image, max_iter |-> u.max_iter,
   thr |-> u.thr, path |-> u.path]

\* C4: whichever branch ran (on a valid sweep), the units dispatched (with their arguments) and
\* the final outputs are those of the sequential branch on the same inputs.
C4_SameAsSequential ==
  (pc \in {"done", "panicked"} /\ Computed /\ ValidSweep) =>
    With(SeqOutcome(1, <<>>, <<>>), LAMBDA o :
      /\ {Arguments(units[i]) : i \in Idx}
           = {Arguments(o.units[i]) : i \in 1..Len(o.units)}
      /\ files = o.files)

\* C5 as stated: the units running at once never exceed the available
\* parallelism.
C5_RunningWithinParallelism ==
  par > 0 => Cardinality(Running) <= par

\* C5 amended: one thread per lambda: the units running at once never exceed
\* steps, and all steps threads are spawned before the first join, whatever
\* the available parallelism.
C5_RunningWithinSteps ==
  pc # "solver" =>
    /\ Cardinality(Running) <= args.steps
    /\ Len(units) <= args.steps
    /\ pc = "join" => Len(units) = args.steps

C5_Witness == par > 0 /\ Cardinality(Running) > par

\* C6 as stated: with steps = 1 the sequence is [lambda_start] and no ratio
\* is computed, so no division by zero occurs.
C6_NoRatioComputed ==
  (pc # "solver" /\ args.steps = 1 /\ Computed) =>
    /\ lambdas = <<args.start_lambda>>
    /\ q = None
    /\ expo = None \/ IsFin(expo)

\* C6 amended: with steps = 1 the sequence is [lambda_start] and the single
\* unit dispatched has lambda = lambda_start; q is computed all the same, with
\* exponent 1/0 = +inf, and q^0 = 1 keeps it out of the result.
C6_SingleStep ==
  (pc # "solver" /\ args.steps = 1 /\ Computed) =>
    /\ lambdas = <<args.start_lambda>>
    /\ expo = PInf
    /\ q # None
    /\ Len(units) <= 1
    /\ \A i \in Idx : units[i].lambda = args.start_lambda
    /\ pc = "done" => Len(units) = 1

C6_Witness ==
  /\ pc = "done"
  /\ args.steps = 1
  /\ Len(units) = 1
  /\ units[1].st = "finished"
  /\ FLt(Fin(0), args.start_lambda)

\* the case of C7
GeometricCase ==
  /\ pc # "solver"
  /\ args.steps > 1
  /\ FLt(Fin(0), args.start_lambda)
  /\ FLt(args.start_lambda, args.end_lambda)
  /\ Computed

\* C7 as stated: steps elements, element k = lambda_start * q^k, the first is
\* lambda_start, the last is lambda_end, strictly increasing, one unit per
\* element in order.
C7_GeometricExact ==
  GeometricCase =>
    /\ Len(lambdas) = args.steps
    /\ lambdas[1] = args.start_lambda
    /\ lambdas[args.steps] = args.end_lambda
    /\ \A k \in 1..(args.steps - 1) : FLt(lambdas[k], lambdas[k + 1])
    /\ \A i \in Idx : units[i].lambda = lambdas[i]

\* C7 amended: steps elements, element k = lambda_start * q^k in rounded
\* arithmetic with q = (lambda_end / lambda_start)^(1/(steps-1)), the first is
\* exactly lambda_start, no element is below its predecessor, and the units
\* are dispatched one per element in that order.
C7_GeometricRounded ==
  GeometricCase =>
    /\ Len(lambdas) = args.steps
    /\ q = FPowf(FDiv(args.end_lambda, args.start_lambda),
                 FDiv(Fin(SCALE), Fin((args.steps - 1) * SCALE)))
    /\ \A k \in 1..args.steps :
         lambdas[k] = FMul(args.start_lambda, FPowi(q, k - 1))
    /\ lambdas[1] = args.start_lambda
    /\ \A k \in 1..(args.steps - 1) : ~FLt(lambdas[k + 1], lambdas[k])
    /\ \A i \in Idx : units[i].lambda = lambdas[i]
    /\ pc = "done" => Len(units) = args.steps

C7_Witness ==
  /\ GeometricCase
  /\ pc = "done"
  /\ args.steps = MaxSteps
  /\ Len(units) = MaxSteps
  /\ lambdas[args.steps] # args.end_lambda

\* the solver has stopped
Stopped == sv.status \in {"converged", "exhausted"}

\* C8 as stated: on a uniform channel the solver stops at iteration 1 with
\* status converged and returns the input, for every threshold >= 0.
C8_UniformConvergesAlways ==
  (pc = "solver" /\ IsUniform(sin.f) /\ Stopped) =>
    /\ sv.status = "converged"
    /\ sv.n = 1
    /\ sv.u = sin.f

\* C8 amended: on a uniform channel every iterate equals the input; with a
\* threshold > 0 the solver stops at iteration 1 with status converged; with
\* threshold 0 the strict test never passes and it stops exhausted at
\* iteration max_iter.
C8_UniformConverges ==
  (pc = "solver" /\ IsUniform(sin.f)) =>
    /\ sv.u = sin.f
    /\ sv.n <= sin.max_iter
    /\ (sin.thr > 0 /\ sv.n >= 1) => (sv.status = "converged" /\ sv.n = 1)
    /\ sin.thr = 0 => /\ sv.status # "converged"
                      /\ Stopped => sv.n = sin.max_iter

C8_Witness ==
  /\ pc = "solver"
  /\ IsUniform(sin.f)
  /\ sin.thr > 0
  /\ sv.status = "converged"
  /\ sv.n = 1

C10_DistinctTargets ==
  (pc # "solver" /\ ValidSweep) => \A i, j \in Idx :
    units[i].lambda # units[j].lambda => units[i].path # units[j].path

====
